---- MODULE Spec2Model ----
(***************************************************************************)
(* Model of calc.py: the ledger assembler `parse` (end-date, type and      *)
(* asset filters, conversion splitter, chronological sort) and the three   *)
(* Cli reports `sum`, `cg` and `view`.                                     *)
(*                                                                         *)
(* Floats are modelled as normalised rationals <<n, d>>.  A datetime is an *)
(* integer number of ticks, TicksPerDay ticks to the day, and a date is a  *)
(* day number.  A string that the code splits on " " is the sequence of    *)
(* its tokens.  An optional date is <<>> (None) or <<day>>.                *)
(***************************************************************************)
EXTENDS Integers, Sequences, FiniteSets, TLC

VARIABLES raw, op, arg_type, arg_asset, arg_end, ptype, passet, pend,
          pc, txns, stream, ledger, err, printed

vars == <<raw, op, arg_type, arg_asset, arg_end, ptype, passet, pend,
          pc, txns, stream, ledger, err, printed>>

(* ---------------------------- bounds ----------------------------------- *)
MaxRows == 2
MaxTs == 2
TicksPerDay == 2
MaxLedger == 2

None == "None"
NoDate == <<>>

(* ------------------------- float arithmetic ---------------------------- *)
Abs(x) == IF x < 0 THEN -x ELSE x

RECURSIVE GCD(_, _)
GCD(a, b) == IF b = 0 THEN a ELSE GCD(b, a % b)

Rat(n, d) ==
    LET g == GCD(Abs(n), Abs(d))
        s == IF d < 0 THEN -1 ELSE 1
    IN  <<(s * n) \div g, (s * d) \div g>>

Num(n) == <<n, 1>>
Zero == Num(0)
RAdd(x, y) == Rat(x[1] * y[2] + y[1] * x[2], x[2] * y[2])
RSub(x, y) == Rat(x[1] * y[2] - y[1] * x[2], x[2] * y[2])
RMul(x, y) == Rat(x[1] * y[1], x[2] * y[2])
\* x / y for y # 0; the caller raises ZeroDivisionError when y = 0
RDiv(x, y) == Rat(x[1] * y[2], x[2] * y[1])

(* ----------------------- TransactionType (12-15) ----------------------- *)
TransactionType == {"Receive", "Convert", "Send"}

\* TransactionType(type) if type else None
ToTransactionType(type) ==
    IF type = None THEN [err |-> None, val |-> None]
    ELSE IF type \in TransactionType THEN [err |-> None, val |-> type]
    ELSE [err |-> "ValueError", val |-> None]

(* ------------------------ str(float), float(str) ----------------------- *)
\* f"{x}" of a non-negative float with at most one decimal digit
FloatRepr(x) ==
    LET tenths == (x[1] * 10) \div x[2]
    IN  ToString(tenths \div 10) \o "." \o ToString(tenths % 10)

\* the texts float() accepts, among the tokens of the model, and their values
FloatTable ==
    [t \in {"0", "1", "1.0", "2", "2.0", "20", "20.0"} |->
        CASE t = "0" -> Num(0)
          [] t \in {"1", "1.0"} -> Num(1)
          [] t \in {"2", "2.0"} -> Num(2)
          [] t \in {"20", "20.0"} -> Num(20)]

IsFloat(tok) == tok \in DOMAIN FloatTable
FloatOf(tok) == FloatTable[tok]

\* notes.removeprefix(st).split(sep=" "): st ends in a space, so the text
\* starts with st exactly when its first tokens are those of st and one more
\* token (possibly empty) follows
RemovePrefixSplit(notes, st) ==
    IF Len(notes) > Len(st) /\ SubSeq(notes, 1, Len(st)) = st
    THEN SubSeq(notes, Len(st) + 1, Len(notes))
    ELSE notes

(* ------------------------ _split_conversion ---------------------------- *)
\* SplitOne without line 44: the record is yielded with its type untouched
SplitOneKeepsType(tx) ==
    IF tx.transaction_type = "Convert"
    THEN LET st == <<"Converted", FloatRepr(tx.quantity_transacted), tx.asset, "to">>
             parsed == RemovePrefixSplit(tx.notes, st)
             value_transacted == RMul(tx.spot_price, tx.quantity_transacted)
         IN  IF ~IsFloat(parsed[1])
             THEN [err |-> "ValueError", out |-> <<tx>>]
             ELSE IF Len(parsed) < 2
             THEN [err |-> "IndexError", out |-> <<tx>>]
             ELSE IF FloatOf(parsed[1]) = Zero
             THEN [err |-> "ZeroDivisionError", out |-> <<tx>>]
             ELSE [err |-> None,
                   out |-> <<tx,
                             [tx EXCEPT !.half = "copy",
                                        !.quantity_transacted = FloatOf(parsed[1]),
                                        !.asset = parsed[2],
                                        !.transaction_type = "Receive",
                                        !.spot_price =
                                            RDiv(value_transacted, FloatOf(parsed[1]))]>>]
    ELSE [err |-> None, out |-> <<tx>>]

\* SplitOne yielding the derived Receive before the Send
SplitOneReceiveFirst(tx) ==
    IF tx.transaction_type = "Convert"
    THEN LET st == <<"Converted", FloatRepr(tx.quantity_transacted), tx.asset, "to">>
             parsed == RemovePrefixSplit(tx.notes, st)
             send == [tx EXCEPT !.transaction_type = "Send"]
             value_transacted == RMul(tx.spot_price, tx.quantity_transacted)
         IN  IF ~IsFloat(parsed[1])
             THEN [err |-> "ValueError", out |-> <<>>]
             ELSE IF Len(parsed) < 2
             THEN [err |-> "IndexError", out |-> <<>>]
             ELSE IF FloatOf(parsed[1]) = Zero
             THEN [err |-> "ZeroDivisionError", out |-> <<>>]
             ELSE [err |-> None,
                   out |-> <<[send EXCEPT !.half = "copy",
                                          !.quantity_transacted = FloatOf(parsed[1]),
                                          !.asset = parsed[2],
                                          !.transaction_type = "Receive",
                                          !.spot_price =
                                              RDiv(value_transacted, FloatOf(parsed[1]))],
                             send>>]
    ELSE [err |-> None, out |-> <<tx>>]

\* one iteration of the generator's loop: what it yields, or the exception
SplitOne(tx) ==
    IF tx.transaction_type = "Convert"
    THEN LET st == <<"Converted", FloatRepr(tx.quantity_transacted), tx.asset, "to">>
             parsed == RemovePrefixSplit(tx.notes, st)
             send == [tx EXCEPT !.transaction_type = "Send"]
             value_transacted == RMul(tx.spot_price, tx.quantity_transacted)
         IN  IF ~IsFloat(parsed[1])
             THEN [err |-> "ValueError", out |-> <<send>>]
             ELSE IF Len(parsed) < 2
             THEN [err |-> "IndexError", out |-> <<send>>]
             ELSE IF FloatOf(parsed[1]) = Zero
             THEN [err |-> "ZeroDivisionError", out |-> <<send>>]
             ELSE [err |-> None,
                   out |-> <<send,
                             [send EXCEPT !.half = "copy",
                                          !.quantity_transacted = FloatOf(parsed[1]),
                                          !.asset = parsed[2],
                                          !.transaction_type = "Receive",
                                          !.spot_price =
                                              RDiv(value_transacted, FloatOf(parsed[1]))]>>]
    ELSE [err |-> None, out |-> <<tx>>]

RECURSIVE SplitConversion(_)
SplitConversion(s) ==
    IF s = <<>> THEN [err |-> None, out |-> <<>>]
    ELSE LET h == SplitOne(Head(s))
         IN  IF h.err # None THEN h
             ELSE LET t == SplitConversion(Tail(s))
                  IN  [err |-> t.err, out |-> h.out \o t.out]

(* ------------------------------ filters -------------------------------- *)
DateOf(timestamp) == timestamp \div TicksPerDay

\* the type filter as it would act were it run after the splitter: a Convert
\* row counts as the Send and the Receive it becomes
FilterTransactionTypeAfterSplit(transaction_type, s) ==
    SelectSeq(s, LAMBDA tx : \/ tx.transaction_type = transaction_type
                             \/ transaction_type = None
                             \/ /\ tx.transaction_type = "Convert"
                                /\ transaction_type \in {"Receive", "Send"})

FilterTransactionType(transaction_type, s) ==
    SelectSeq(s, LAMBDA tx : tx.transaction_type = transaction_type
                             \/ transaction_type = None)

FilterAsset(asset, s) ==
    SelectSeq(s, LAMBDA tx : tx.asset = asset \/ asset = None)

\* `tx.timestamp.date() <= date or date == None`: the comparison comes first
\* and raises TypeError against None, on the first record
FilterEndDate(date, s) ==
    IF s = <<>> THEN [err |-> None, out |-> <<>>]
    ELSE IF date = NoDate THEN [err |-> "TypeError", out |-> <<>>]
    ELSE [err |-> None,
          out |-> SelectSeq(s, LAMBDA tx : DateOf(tx.timestamp) <= date[1])]

(* --------------------- sorted(txns, key=timestamp) --------------------- *)
RECURSIVE InsertBeforeTies(_, _)
\* an unstable insertion: x goes before the records of its own timestamp
InsertBeforeTies(s, x) ==
    IF s = <<>> THEN <<x>>
    ELSE IF Head(s).timestamp < x.timestamp
         THEN <<Head(s)>> \o InsertBeforeTies(Tail(s), x)
         ELSE <<x>> \o s

RECURSIVE Insert(_, _)
\* x goes after every record whose timestamp is not later (stable)
Insert(s, x) ==
    IF s = <<>> THEN <<x>>
    ELSE IF Head(s).timestamp <= x.timestamp
         THEN <<Head(s)>> \o Insert(Tail(s), x)
         ELSE <<x>> \o s

RECURSIVE Sorted(_)
Sorted(s) ==
    IF s = <<>> THEN <<>>
    ELSE Insert(Sorted(SubSeq(s, 1, Len(s) - 1)), s[Len(s)])

(* ------------------- TransactionModel and the inputs ------------------- *)
Assets == {"BTC", "ETH"}
Other(a) == IF a = "BTC" THEN "ETH" ELSE "BTC"

\* A TransactionModel (18-24).  `row` is the CSV row the object was read from
\* and `half` tells the object parsed from the row ("orig") from the deepcopy
\* the splitter makes of it ("copy"): together they are the object's identity.
Tx(ts, type, a, q, p, n) ==
    [row |-> 0, half |-> "orig", timestamp |-> ts, transaction_type |-> type,
     asset |-> a, quantity_transacted |-> q, spot_price |-> p, notes |-> n]

\* the Notes cell of a Convert row of quantity q and asset a, as tokens
Notes(kind, q, a) ==
    CASE kind = "repr"       -> <<"Converted", FloatRepr(q), a, "to", "20", Other(a)>>
      [] kind = "plain"      -> <<"Converted", ToString(q[1]), a, "to", "20", Other(a)>>
      [] kind = "extra"      -> <<"Converted", FloatRepr(q), a, "to", "20", Other(a), "extra">>
      [] kind = "noasset"    -> <<"Converted", FloatRepr(q), a, "to", "20">>
      [] kind = "nonnumeric" -> <<"Converted", FloatRepr(q), a, "to", "x", Other(a)>>
      [] kind = "noprefix"   -> <<"20", Other(a)>>

NoteKinds == {"repr", "plain", "extra", "noasset", "nonnumeric", "noprefix"}

Timestamps == 0..MaxTs
Dates == {DateOf(ts) : ts \in Timestamps}
DateArgs == {NoDate} \cup {<<d>> : d \in Dates}

\* the rows _read_csv can return, for quantities Q, prices P and note kinds K
Rows(Q, P, K) ==
    {Tx(ts, type, a, q, p, <<"">>) :
        ts \in Timestamps, type \in {"Receive", "Send"}, a \in Assets, q \in Q, p \in P}
    \cup
    {Tx(ts, "Convert", a, q, p, Notes(k, q, a)) :
        ts \in Timestamps, a \in Assets, q \in Q, p \in P, k \in K}

SeqsUpTo(S, n) == UNION {[1..k -> S] : k \in 0..n}

\* the list _read_csv returns: row i of the file becomes the i-th object
ReadCsv(data) == [i \in 1..Len(data) |-> [data[i] EXCEPT !.row = i]]

(* ------------------------------- dicts --------------------------------- *)
EmptyDict == [keys |-> {}, val |-> <<>>]
Has(d, k) == k \in d.keys
Get(d, k) == d.val[k]
Put(d, k, v) ==
    [keys |-> d.keys \cup {k},
     val  |-> [x \in d.keys \cup {k} |-> IF x = k THEN v ELSE d.val[x]]]

NothingPrinted == [gains |-> EmptyDict, balance |-> EmptyDict, total |-> Zero]

(* ------------------------------- parse --------------------------------- *)
\* line 84-85: type = TransactionType(type) if type else None; _read_csv
ParseBegin ==
    /\ pc = "parse"
    /\ LET t == ToTransactionType(ptype)
       IN  IF t.err # None
           THEN /\ err' = t.err
                /\ pc' = "done"
                /\ UNCHANGED <<ptype, txns>>
           ELSE /\ ptype' = t.val
                /\ txns' = raw
                /\ pc' = "end_date"
                /\ UNCHANGED err
    /\ UNCHANGED <<raw, op, arg_type, arg_asset, arg_end, passet, pend,
                   stream, ledger, printed>>

\* line 86
ParseFilterEndDate ==
    /\ pc = "end_date"
    /\ LET f == FilterEndDate(pend, txns)
       IN  IF f.err # None
           THEN /\ err' = f.err
                /\ pc' = "done"
                /\ UNCHANGED txns
           ELSE /\ txns' = f.out
                /\ pc' = "type"
                /\ UNCHANGED err
    /\ UNCHANGED <<raw, op, arg_type, arg_asset, arg_end, ptype, passet, pend,
                   stream, ledger, printed>>

\* line 87
ParseFilterType ==
    /\ pc = "type"
    /\ txns' = FilterTransactionType(ptype, txns)
    /\ pc' = "asset"
    /\ UNCHANGED <<raw, op, arg_type, arg_asset, arg_end, ptype, passet, pend,
                   stream, ledger, err, printed>>

\* line 88
ParseFilterAsset ==
    /\ pc = "asset"
    /\ txns' = FilterAsset(passet, txns)
    /\ pc' = "split"
    /\ UNCHANGED <<raw, op, arg_type, arg_asset, arg_end, ptype, passet, pend,
                   stream, ledger, err, printed>>

\* line 89-90: sorted() drains the generator; an exception in the generator
\* leaves parse without a return value
ParseSplitSort ==
    /\ pc = "split"
    /\ LET g == SplitConversion(txns)
       IN  /\ stream' = g.out
           /\ err' = g.err
           /\ ledger' = IF g.err = None THEN Sorted(g.out) ELSE <<>>
    /\ pc' = "done"
    /\ UNCHANGED <<raw, op, arg_type, arg_asset, arg_end, ptype, passet, pend,
                   txns, printed>>

\* parse(filepath, type, asset, end_date) as one call: what it returns or raises
ParseCall(rows, type, asset, end_date) ==
    LET t == ToTransactionType(type)
        d == FilterEndDate(end_date, rows)
        f == FilterAsset(asset, FilterTransactionType(t.val, d.out))
        g == SplitConversion(f)
    IN  IF t.err # None
        THEN [err |-> t.err, txns |-> <<>>, stream |-> <<>>, ledger |-> <<>>]
        ELSE IF d.err # None
        THEN [err |-> d.err, txns |-> rows, stream |-> <<>>, ledger |-> <<>>]
        ELSE [err |-> g.err, txns |-> f, stream |-> g.out,
              ledger |-> IF g.err = None THEN Sorted(g.out) ELSE <<>>]

Next ==
    \/ ParseBegin
    \/ ParseFilterEndDate
    \/ ParseFilterType
    \/ ParseFilterAsset
    \/ ParseSplitSort

SpecRows == Rows({Num(1)}, {Num(10)}, {"repr", "plain"})
TypeArgs == {None} \cup TransactionType \cup {"BTC"}
AssetArgs == {None, "BTC"}

Init ==
    /\ raw \in {ReadCsv(d) : d \in SeqsUpTo(SpecRows, MaxRows)}
    /\ op = "parse"
    /\ arg_type = None /\ arg_asset = None /\ arg_end = None
    /\ ptype \in TypeArgs
    /\ passet \in AssetArgs
    /\ pend \in DateArgs
    /\ pc = "parse"
    /\ txns = <<>> /\ stream = <<>> /\ ledger = <<>>
    /\ err = None
    /\ printed = NothingPrinted

Spec == Init /\ [][Next]_vars

(* ------------------------------ Cli.sum -------------------------------- *)
RECURSIVE SumLoop(_, _)
\* line 104-106
SumLoop(total, s) ==
    IF s = <<>> THEN total
    ELSE SumLoop(RAdd(total, RMul(Head(s).spot_price, Head(s).quantity_transacted)),
                 Tail(s))

(* ------------------------------- Cli.cg -------------------------------- *)
\* line 116-127, one iteration; st = [gains, asset_value]
CgBody(st, tx) ==
    LET seen == Has(st.gains, tx.asset)
        gains0 == IF seen THEN st.gains ELSE Put(st.gains, tx.asset, Zero)
        value0 == IF seen THEN st.asset_value ELSE Put(st.asset_value, tx.asset, Zero)
        first_purchase == Get(value0, tx.asset) = Zero
        actual_gain == IF first_purchase THEN Zero
                       ELSE RMul(RSub(tx.spot_price, Get(value0, tx.asset)),
                                 tx.quantity_transacted)
    IN  [gains |-> Put(gains0, tx.asset, RAdd(Get(gains0, tx.asset), actual_gain)),
         asset_value |-> Put(value0, tx.asset, tx.spot_price)]

RECURSIVE CgLoop(_, _)
CgLoop(st, s) == IF s = <<>> THEN st ELSE CgLoop(CgBody(st, Head(s)), Tail(s))

RECURSIVE SumValues(_, _)
\* line 129-131
SumValues(d, ks) ==
    IF ks = {} THEN Zero
    ELSE LET k == CHOOSE x \in ks : TRUE
         IN  RAdd(Get(d, k), SumValues(d, ks \ {k}))

\* line 113-132: what cg prints for the ledger parse returned
CgReport(txs) ==
    LET st == CgLoop([gains |-> EmptyDict, asset_value |-> EmptyDict], txs)
    IN  [gains |-> st.gains, balance |-> EmptyDict,
         total |-> SumValues(st.gains, st.gains.keys)]

(* ------------------------------ Cli.view ------------------------------- *)
Unbound == [bound |-> FALSE, val |-> Zero]

\* line 147-157, one iteration; st = [total, balance, asset_value, amount, err]
ViewBody(st, tx) ==
    LET total0 == IF Has(st.total, tx.asset) /\ Get(st.total, tx.asset) # Zero
                  THEN st.total ELSE Put(st.total, tx.asset, Zero)
        value1 == Put(st.asset_value, tx.asset, tx.spot_price)
    IN  IF tx.transaction_type # "Receive" /\ ~st.amount.bound
        THEN [st EXCEPT !.err = "UnboundLocalError"]
        ELSE LET amount == IF tx.transaction_type = "Receive"
                           THEN tx.quantity_transacted
                           ELSE RMul(Num(-1), st.amount.val)
                 total1 == Put(total0, tx.asset, RAdd(Get(total0, tx.asset), amount))
             IN  [total |-> total1,
                  balance |-> Put(st.balance, tx.asset,
                                  RMul(Get(total1, tx.asset), Get(value1, tx.asset))),
                  asset_value |-> value1,
                  amount |-> [bound |-> TRUE, val |-> amount],
                  err |-> None]

RECURSIVE ViewLoop(_, _)
ViewLoop(st, s) ==
    IF s = <<>> \/ st.err # None THEN st ELSE ViewLoop(ViewBody(st, Head(s)), Tail(s))

\* line 143-158: what view prints for the ledger parse returned, or the exception
ViewReport(txs) ==
    LET st == ViewLoop([total |-> EmptyDict, balance |-> EmptyDict,
                        asset_value |-> EmptyDict, amount |-> Unbound, err |-> None],
                       txs)
    IN  [err |-> st.err,
         printed |-> IF st.err = None
                     THEN [gains |-> EmptyDict, balance |-> st.balance, total |-> Zero]
                     ELSE NothingPrinted]

(* ---------------------- the Cli operations, whole ---------------------- *)
\* date.fromisoformat, on the dates of the model's days
IsoDates == [d \in Dates |-> "1970-01-0" \o ToString(d + 1)]
FromIsoFormat(text) == CHOOSE d \in Dates : IsoDates[d] = text
EndDateArgs == {None} \cup {IsoDates[d] : d \in Dates}
CliRows == Rows({Num(1)}, {Num(10)}, {"repr"})

\* line 96-107
Sum ==
    /\ pc = "cli"
    /\ \E t \in {None} \cup TransactionType, a \in {None} \cup Assets, e \in EndDateArgs :
          LET r == ParseCall(raw, t, a, NoDate)
          IN  /\ op' = "sum"
              /\ arg_type' = t /\ arg_asset' = a /\ arg_end' = e
              /\ ptype' = t /\ passet' = a /\ pend' = NoDate
              /\ txns' = r.txns /\ stream' = r.stream /\ ledger' = r.ledger
              /\ err' = r.err
              /\ printed' = IF r.err = None
                            THEN [NothingPrinted EXCEPT !.total = SumLoop(Zero, r.ledger)]
                            ELSE NothingPrinted
    /\ pc' = "done"
    /\ UNCHANGED raw

\* line 109-132
Cg ==
    /\ pc = "cli"
    /\ \E a \in {None} \cup Assets, e \in EndDateArgs :
          LET end_date == IF e # None THEN <<FromIsoFormat(e)>> ELSE NoDate
              r == ParseCall(raw, a, None, end_date)
          IN  /\ op' = "cg"
              /\ arg_type' = None /\ arg_asset' = a /\ arg_end' = e
              /\ ptype' = a /\ passet' = None /\ pend' = end_date
              /\ txns' = r.txns /\ stream' = r.stream /\ ledger' = r.ledger
              /\ err' = r.err
              /\ printed' = IF r.err = None THEN CgReport(r.ledger) ELSE NothingPrinted
    /\ pc' = "done"
    /\ UNCHANGED raw

\* line 134-158
View ==
    /\ pc = "cli"
    /\ \E t \in {None} \cup TransactionType, a \in {None} \cup Assets, e \in EndDateArgs :
          LET r == ParseCall(raw, a, None, NoDate)
              v == ViewReport(r.ledger)
          IN  /\ op' = "view"
              /\ arg_type' = t /\ arg_asset' = a /\ arg_end' = e
              /\ ptype' = a /\ passet' = None /\ pend' = NoDate
              /\ txns' = r.txns /\ stream' = r.stream /\ ledger' = r.ledger
              /\ err' = IF r.err # None THEN r.err ELSE v.err
              /\ printed' = IF r.err = None THEN v.printed ELSE NothingPrinted
    /\ pc' = "done"
    /\ UNCHANGED raw

NextCli == Sum \/ Cg \/ View

InitCli ==
    /\ raw \in {ReadCsv(d) : d \in SeqsUpTo(CliRows, MaxRows)}
    /\ op = None
    /\ arg_type = None /\ arg_asset = None /\ arg_end = None
    /\ ptype = None /\ passet = None /\ pend = NoDate
    /\ pc = "cli"
    /\ txns = <<>> /\ stream = <<>> /\ ledger = <<>>
    /\ err = None
    /\ printed = NothingPrinted

SpecCli == InitCli /\ [][NextCli]_vars

(* --------- the report loops, over the ledgers parse can return --------- *)
ReportRows == Rows({Num(1), Num(2)}, {Num(0), Num(10)}, {})
IsSorted(s) == \A i \in 1..(Len(s) - 1) : s[i].timestamp <= s[i + 1].timestamp

\* parse has returned: a chronological ledger of Receive and Send records
InitReport ==
    /\ raw \in {ReadCsv(d) : d \in {x \in SeqsUpTo(ReportRows, MaxLedger) : IsSorted(x)}}
    /\ ledger = raw /\ txns = raw /\ stream = raw
    /\ op \in {"sum", "cg", "view"}
    /\ arg_type = None /\ arg_asset = None /\ arg_end = None
    /\ ptype = None /\ passet = None /\ pend = <<DateOf(MaxTs)>>
    /\ pc = "report"
    /\ err = None
    /\ printed = NothingPrinted

\* line 104-107
SumPrint ==
    /\ pc = "report" /\ op = "sum"
    /\ printed' = [NothingPrinted EXCEPT !.total = SumLoop(Zero, ledger)]
    /\ pc' = "done"
    /\ UNCHANGED <<raw, op, arg_type, arg_asset, arg_end, ptype, passet, pend,
                   txns, stream, ledger, err>>

\* line 113-132
CgPrint ==
    /\ pc = "report" /\ op = "cg"
    /\ printed' = CgReport(ledger)
    /\ pc' = "done"
    /\ UNCHANGED <<raw, op, arg_type, arg_asset, arg_end, ptype, passet, pend,
                   txns, stream, ledger, err>>

\* line 143-158
ViewPrint ==
    /\ pc = "report" /\ op = "view"
    /\ LET v == ViewReport(ledger)
       IN  /\ err' = v.err
           /\ printed' = v.printed
    /\ pc' = "done"
    /\ UNCHANGED <<raw, op, arg_type, arg_asset, arg_end, ptype, passet, pend,
                   txns, stream, ledger>>

NextReport == SumPrint \/ CgPrint \/ ViewPrint

SpecReport == InitReport /\ [][NextReport]_vars

(* ------------- parse over one row, with every kind of note ------------- *)
NoteRows == Rows({Num(1), Num(2)}, {Num(10), Num(100)}, NoteKinds)

InitNotes ==
    /\ raw \in {ReadCsv(d) : d \in SeqsUpTo(NoteRows, 1)}
    /\ op = "parse"
    /\ arg_type = None /\ arg_asset = None /\ arg_end = None
    /\ ptype \in {None, "Convert"}
    /\ passet = None
    /\ pend = <<DateOf(MaxTs)>>
    /\ pc = "parse"
    /\ txns = <<>> /\ stream = <<>> /\ ledger = <<>>
    /\ err = None
    /\ printed = NothingPrinted

SpecNotes == InitNotes /\ [][Next]_vars

(* ======================= properties of the ledger ====================== *)
Done == pc = "done"
Returned == pc = "done" /\ err = None

\* the raw rows that pass parse's end-date and asset filters
DatePasses(tx) == pend # NoDate /\ DateOf(tx.timestamp) <= pend[1]
AssetPasses(tx) == passet = None \/ tx.asset = passet
ConvertRowsKept ==
    {i \in DOMAIN raw : /\ raw[i].transaction_type = "Convert"
                        /\ DatePasses(raw[i])
                        /\ AssetPasses(raw[i])}

PosIn(s, x) == CHOOSE k \in DOMAIN s : s[k] = x

\* C3: the end-date filter returns exactly the records dated on or before
\* end_date, in their order, and with end_date unset it returns every record
\* without raising an error.
EndDateFilterKeepsUpToEndDate ==
    /\ pc = "type" =>
          txns = SelectSeq(raw, LAMBDA tx : pend = NoDate \/ DateOf(tx.timestamp) <= pend[1])
    /\ pc = "done" => err # "TypeError"

\* the note is "Converted <q> <A> to <q2> <A2>" for the record's q and A
WellFormedNote(tx) ==
    /\ Len(tx.notes) = 6
    /\ tx.notes[1] = "Converted"
    /\ IsFloat(tx.notes[2])
    /\ FloatOf(tx.notes[2]) = tx.quantity_transacted
    /\ tx.notes[3] = tx.asset
    /\ tx.notes[4] = "to"
    /\ IsFloat(tx.notes[5])
    /\ FloatOf(tx.notes[5]) # Zero
    /\ tx.notes[6] \in Assets

IsSendHalf(x, tx) ==
    x = [tx EXCEPT !.transaction_type = "Send"]

IsReceiveHalf(x, tx) ==
    /\ x.row = tx.row
    /\ x.timestamp = tx.timestamp
    /\ x.transaction_type = "Receive"
    /\ x.asset = tx.notes[6]
    /\ x.quantity_transacted = FloatOf(tx.notes[5])
    /\ x.spot_price = RDiv(RMul(tx.spot_price, tx.quantity_transacted), FloatOf(tx.notes[5]))
    /\ RMul(x.spot_price, x.quantity_transacted)
         = RMul(tx.spot_price, tx.quantity_transacted)

\* C4: a Convert record whose notes read "Converted <q> <A> to <q2> <A2>",
\* whichever way the whole number q is written, is split into the record as a
\* Send and then a Receive of q2 A2 at the price (p*q)/q2, and nothing else.
ConvertSplitsIntoSendThenReceive ==
    Done =>
      \A i \in DOMAIN txns :
         (txns[i].transaction_type = "Convert" /\ WellFormedNote(txns[i])) =>
            /\ err = None
            /\ \E k \in 1..(Len(stream) - 1) :
                  /\ IsSendHalf(stream[k], txns[i])
                  /\ IsReceiveHalf(stream[k + 1], txns[i])
                  /\ \A j \in DOMAIN stream :
                        stream[j].row = txns[i].row => j \in {k, k + 1}

\* C5: a Convert record whose notes are not of that form makes parse raise
\* an error and return no ledger.
MalformedNoteAborts ==
    (Done /\ \E i \in DOMAIN txns :
                 txns[i].transaction_type = "Convert" /\ ~WellFormedNote(txns[i]))
    => (err # None /\ ledger = <<>>)

\* C6: the ledger parse returns holds no Convert record, only Receive and Send.
NoConvertInLedger ==
    Returned =>
      \A j \in DOMAIN ledger : ledger[j].transaction_type \in {"Receive", "Send"}

ConvertWasSplit ==
    /\ Returned
    /\ \E i \in DOMAIN txns : txns[i].transaction_type = "Convert"
    /\ Len(ledger) > Len(txns)

\* C7: the ledger is ascending by timestamp, and records of equal timestamp
\* keep the order they had in the filtered-and-split stream.
LedgerChronologicalAndStable ==
    Returned =>
      /\ \A j \in 1..(Len(ledger) - 1) : ledger[j].timestamp <= ledger[j + 1].timestamp
      /\ \A j, k \in DOMAIN ledger :
            (j < k /\ ledger[j].timestamp = ledger[k].timestamp) =>
               PosIn(stream, ledger[j]) < PosIn(stream, ledger[k])

SortMovedRecordsWithTies ==
    /\ Returned
    /\ ledger # stream
    /\ \E j, k \in DOMAIN ledger :
          /\ j < k
          /\ ledger[j].timestamp = ledger[k].timestamp

\* C9: the type filter sees the types of the raw rows.  With type=Convert the
\* ledger is exactly the Send and the Receive half of every raw Convert row
\* that passes the other filters; with type=Receive or Send it holds only raw
\* rows of that type, unchanged, and no half of a conversion.
TypeFilterSeesRawTypes ==
    Returned =>
      /\ ptype = "Convert" =>
            /\ Len(ledger) = 2 * Cardinality(ConvertRowsKept)
            /\ \A i \in ConvertRowsKept :
                  \E j, k \in DOMAIN ledger :
                     /\ ledger[j].row = i /\ ledger[j].half = "orig"
                     /\ ledger[j].transaction_type = "Send"
                     /\ ledger[k].row = i /\ ledger[k].half = "copy"
                     /\ ledger[k].transaction_type = "Receive"
      /\ ptype \in {"Receive", "Send"} =>
            \A j \in DOMAIN ledger :
               /\ ledger[j] = raw[ledger[j].row]
               /\ ledger[j].transaction_type = ptype

ConvertFilterKeptBothHalves ==
    /\ Returned
    /\ ptype = "Convert"
    /\ Len(raw) = 2
    /\ Cardinality(ConvertRowsKept) = 1
    /\ Len(ledger) = 2

\* C10: in the ledger the Receive half of a conversion has the timestamp of
\* its Send half and stands right after it, whatever else shares the timestamp.
ConversionHalvesAdjacent ==
    Returned =>
      \A j \in DOMAIN ledger :
         /\ ledger[j].half = "copy" =>
               /\ j > 1
               /\ ledger[j - 1].row = ledger[j].row
               /\ ledger[j - 1].half = "orig"
               /\ ledger[j - 1].timestamp = ledger[j].timestamp
               /\ ledger[j - 1].transaction_type = "Send"
               /\ ledger[j].transaction_type = "Receive"
         /\ (ledger[j].half = "orig" /\ raw[ledger[j].row].transaction_type = "Convert") =>
               /\ j < Len(ledger)
               /\ ledger[j + 1].row = ledger[j].row
               /\ ledger[j + 1].half = "copy"

ConversionSharesTimestamp ==
    /\ Returned
    /\ \E j, k \in DOMAIN ledger :
          /\ ledger[j].half = "copy"
          /\ ledger[k].row # ledger[j].row
          /\ ledger[k].timestamp = ledger[j].timestamp

(* ====================== properties of the reports ====================== *)
AssetsOf(s) == {s[i].asset : i \in DOMAIN s}
OfAsset(s, a) == SelectSeq(s, LAMBDA tx : tx.asset = a)

RECURSIVE NetQuantity(_)
\* receipts minus sends
NetQuantity(s) ==
    IF s = <<>> THEN Zero
    ELSE IF s[Len(s)].transaction_type = "Receive"
         THEN RAdd(NetQuantity(SubSeq(s, 1, Len(s) - 1)), s[Len(s)].quantity_transacted)
         ELSE RSub(NetQuantity(SubSeq(s, 1, Len(s) - 1)), s[Len(s)].quantity_transacted)

RECURSIVE PriceDrift(_)
\* the sum over every record but the first of (price - previous price) * quantity
PriceDrift(s) ==
    IF Len(s) < 2 THEN Zero
    ELSE RAdd(PriceDrift(SubSeq(s, 1, Len(s) - 1)),
              RMul(RSub(s[Len(s)].spot_price, s[Len(s) - 1].spot_price),
                   s[Len(s)].quantity_transacted))

\* C1: view reports, for each asset of the ledger, its net quantity (receipts
\* minus sends) times the spot price of its last record.
ViewReportsNetQuantityAtLastPrice ==
    (Done /\ op = "view") =>
      /\ err = None
      /\ printed.balance.keys = AssetsOf(ledger)
      /\ \A a \in AssetsOf(ledger) :
            Get(printed.balance, a)
              = RMul(NetQuantity(OfAsset(ledger, a)),
                     OfAsset(ledger, a)[Len(OfAsset(ledger, a))].spot_price)

\* C2: cg's gain of an asset is the sum, over its records but the first, of
\* (price - price of the asset's previous record) * quantity, prices of zero
\* included.
CgGainIsPriceDrift ==
    (Done /\ op = "cg") =>
      /\ printed.gains.keys = AssetsOf(ledger)
      /\ \A a \in AssetsOf(ledger) :
            Get(printed.gains, a) = PriceDrift(OfAsset(ledger, a))

\* C8: sum, cg and view hand the caller's asset to parse as its asset filter
\* (not as its type filter) and the caller's end_date as its end_date, so
\* that no row of another asset or of a later date is in the ledger they
\* report on.
CliHonoursFilters ==
    Done =>
      /\ arg_asset # None =>
            /\ passet = arg_asset
            /\ ptype = arg_type
            /\ err = None => \A j \in DOMAIN ledger : raw[ledger[j].row].asset = arg_asset
      /\ arg_end # None =>
            /\ pend = <<FromIsoFormat(arg_end)>>
            /\ err = None =>
                  \A j \in DOMAIN ledger :
                     DateOf(raw[ledger[j].row].timestamp) <= FromIsoFormat(arg_end)

====
